---- MODULE Spec2Model ----
(***************************************************************************)
(* Model of src/main.py: the /api/team-dashboard handler (team_dashboard)  *)
(* and the /test handler (test_database).                                  *)
(*                                                                         *)
(* Numbers.  Every float the handler produces is kept as an integer number *)
(* of tenths (40.0 is 400, 95.6 is 956); the bug ratio, rounded to two     *)
(* decimals, is kept in hundredths.  round(x, n) is RoundDiv: the nearest  *)
(* value, ties to even.  Dates are day numbers, so a timedelta is a        *)
(* difference of days.  Emoji prefixes of the /test strings are left out.  *)
(***************************************************************************)
EXTENDS Integers, Sequences, FiniteSets, TLC

(* ---------------------------- bounds ---------------------------------- *)
\* the clock (date.today()) runs over the days 0..MaxDay
MaxDay == 1
\* the longest list list_collection_names() returns
MaxColl == 11
\* the longest exception message str(e)
MaxMsgLen == 51

Clients == {"c1", "c2"}
TeamIds == {"team-1", "team-2"}
TeamNames == {"Alpha Team", "Beta Team"}
ItemTypeLists == {<<"Stories", "Bugs", "Tasks", "Epics">>, <<"Bugs">>}
CollLens == {0, 10, MaxColl}
MsgLens == {5, 50, MaxMsgLen}

(* ----------------------- program constants ---------------------------- *)
GroupingPattern == {"By sprint", "By week", "By month"}
Groupings == GroupingPattern \cup {"Invalid"}
sprint_count == 8
SliceCollections == 10
SliceMessage == 50

VARIABLES today, call, frame, resp, situation, testResp

vars == <<today, call, frame, resp, situation, testResp>>

(* ------------------------- arithmetic --------------------------------- *)
Max(a, b) == IF a >= b THEN a ELSE b
Min(a, b) == IF a <= b THEN a ELSE b

\* n/d (d > 0) rounded to the nearest integer, ties to even
RoundDiv(n, d) ==
    LET q == n \div d
        r == n % d
    IN  IF 2 * r < d THEN q
        ELSE IF 2 * r > d THEN q + 1
        ELSE IF q % 2 = 0 THEN q ELSE q + 1

\* round(n/d, 1), in tenths
Round1(n, d) == RoundDiv(10 * n, d)
\* round(n/d, 2), in hundredths
Round2(n, d) == RoundDiv(100 * n, d)

\* sum(x.name for x in s), over the first n entries of s
RECURSIVE SumField(_, _, _)
SumField(s, name, n) ==
    IF n = 0 THEN 0 ELSE s[n][name] + SumField(s, name, n - 1)
\* sum(x.name for x in s)
Sum(s, name) == SumField(s, name, Len(s))

\* list(reversed(s))
ReversedKeep(s) == s
Reversed(s) == [k \in 1..Len(s) |-> s[Len(s) + 1 - k]]

(* ------------------- team_dashboard: one sprint ----------------------- *)
SprintName(idx) == "Sprint " \o ToString(idx)
\* the numeric part of a sprint label
LabelNum(label) == CHOOSE n \in 0..(sprint_count + 1) : SprintName(n) = label

BasePoints(include_done_only) == IF include_done_only THEN 30 ELSE 35

Start(day, i) == day - 7 * ((sprint_count - i) * 2)
End(start) == start + 13

\* committed, in points
Committed(base_points, i) == base_points + (i % 3) * 5 + 5

\* completed, in tenths (lines 163-164)
CompletedOver(committed, i) == Round1(committed + (i % 4) * 4 + ((i % 2) * 2), 1)
CompletedUncapped(committed, i) ==
    Round1(Max(0, committed + (i % 4) * 4 - ((i % 2) * 2)), 1)
Completed(committed, i) ==
    LET completed == Max(0, committed - (i % 4) * 4 + ((i % 2) * 2))
    IN  Round1(Min(committed + 3, completed), 1)

\* rollover, in tenths; completed is in tenths
RolloverSwapped(committed, completed) ==
    Max(0, Round1(completed - 10 * committed, 10))
Rollover(committed, completed) ==
    Max(0, Round1(10 * committed - completed, 10))

\* round(100.0 * (x / committed) if committed else 0, 1); x is in tenths
Percent(x, committed) ==
    IF committed # 0 THEN Round1(100 * x, 10 * committed) ELSE 0

DorDoubled(i) == Round1(80 + (i % 5) * 6 - (i % 2), 1)
Dor(i) == Round1(80 + (i % 5) * 3 - (i % 2), 1)
BugsCreated(i) == 5 + (i % 4) * 2
Reopened(i) == i % 3

VelocityPoint(key, start, end, committed, completed) ==
    [key |-> key, start |-> start, end |-> end,
     committed |-> 10 * committed, completed |-> completed]

CommitmentPoint(sprint, committed, completed, rollover, percent) ==
    [sprint |-> sprint, committed |-> 10 * committed, completed |-> completed,
     rollover |-> rollover, percent |-> percent]

RolloverPointMixed(sprint, percent, committed, rolled) ==
    [sprint |-> sprint, percent |-> percent, committed |-> 10 * committed,
     rolled |-> percent]
RolloverPoint(sprint, percent, committed, rolled) ==
    [sprint |-> sprint, percent |-> percent, committed |-> 10 * committed,
     rolled |-> rolled]

SprintRow(sprint, start, end, committed, completed, completion_percent, rollover_points, rollover_percent, dor_compliance_percent, bugs_created, items_reopened) ==
    [sprint |-> sprint, start |-> start, end |-> end,
     committed |-> 10 * committed, completed |-> completed,
     completion_percent |-> completion_percent,
     rollover_points |-> rollover_points,
     rollover_percent |-> rollover_percent,
     dor_compliance_percent |-> dor_compliance_percent,
     bugs_created |-> bugs_created, items_reopened |-> items_reopened]

EmptyFrame ==
    [velocity |-> <<>>, commit_vs |-> <<>>, rollover_points |-> <<>>,
     rows |-> <<>>]

\* the body of the for loop, for offset i, appending to the four lists
LoopBody(f, base_points, day, i) ==
    LET idx == sprint_count - i
        sprint_name == SprintName(idx)
        start == Start(day, i)
        end == End(start)
        committed == Committed(base_points, i)
        completed == Completed(committed, i)
        rollover == Rollover(committed, completed)
        percent == Percent(completed, committed)
        roll_percent == Percent(rollover, committed)
        dor == Dor(i)
        bugs_created == BugsCreated(i)
        reopened == Reopened(i)
    IN  [velocity |-> Append(f.velocity,
            VelocityPoint(sprint_name, start, end, committed, completed)),
         commit_vs |-> Append(f.commit_vs,
            CommitmentPoint(sprint_name, committed, completed, rollover, percent)),
         rollover_points |-> Append(f.rollover_points,
            RolloverPoint(sprint_name, roll_percent, committed, rollover)),
         rows |-> Append(f.rows,
            SprintRow(sprint_name, start, end, committed, completed, percent,
                      rollover, roll_percent, dor, bugs_created, reopened))]

\* for i in range(sprint_count)
RECURSIVE Loop(_, _, _, _)
Loop(f, base_points, day, i) ==
    IF i >= sprint_count THEN f
    ELSE Loop(LoopBody(f, base_points, day, i), base_points, day, i + 1)

(* ----------------------- team_dashboard: KPIs ------------------------- *)
AvgVelocity(velocity) ==
    Round1(Sum(velocity, "completed"), 10 * Len(velocity))
AvgThroughput(velocity) ==
    Round1(Len(velocity) * 10, Len(velocity))
CommitmentCompletionRolled(commit_vs) ==
    Round1(Sum(commit_vs, "rollover") * 100,
           Sum(commit_vs, "committed"))
CommitmentCompletion(commit_vs) ==
    Round1(Sum(commit_vs, "completed") * 100,
           Sum(commit_vs, "committed"))
RolloverRate(commit_vs) ==
    Round1(Sum(commit_vs, "rollover") * 100,
           Sum(commit_vs, "committed"))
DorCompliance(rows) ==
    Round1(Sum(rows, "dor_compliance_percent"), 10 * Len(rows))
BugRatio(rows) ==
    Round2(Sum(rows, "bugs_created"), Max(1, Len(rows) * 12))

KPI(label, value, delta, help) ==
    [label |-> label, value |-> value, delta |-> delta, help |-> help]

Kpis(f) ==
    << KPI("Velocity", AvgVelocity(f.velocity), 12,
           "Average story points completed per sprint in the selected range."),
       KPI("Throughput", AvgThroughput(f.velocity), -5,
           "Number of items completed per sprint in the selected range."),
       KPI("Commitment completion %", CommitmentCompletion(f.commit_vs), 21,
           "Completed points divided by points committed at sprint start."),
       KPI("Rollover rate %", RolloverRate(f.commit_vs), -14,
           "Rolled-over points divided by committed points."),
       KPI("DoR compliance %", DorCompliance(f.rows), 8,
           "Percentage of items that met Definition of Ready before sprint start."),
       KPI("Bug ratio", BugRatio(f.rows), -1,
           "Number of bugs divided by number of stories completed.") >>

ScopeSummary ==
    [avg_added |-> Round1(32, 10), avg_removed |-> Round1(14, 10),
     avg_net_percent |-> Round1(65, 10)]

\* the TeamDashboardResponse built from the lists of the loop
TeamDashboardResponse(team_name, f) ==
    [team_name |-> team_name,
     kpis |-> Kpis(f),
     velocity |-> Reversed(f.velocity),
     commitment_vs_completion |-> Reversed(f.commit_vs),
     rollover_trend |-> Reversed(f.rollover_points),
     scope_change |-> ScopeSummary,
     sprint_rows |-> Reversed(f.rows)]

\* the local lists of team_dashboard after the loop
DashboardFrameSeeded(team_id, team_name, grouping, include_done_only, item_types, day) ==
    Loop(EmptyFrame,
         BasePoints(include_done_only) + (IF team_id = "team-1" THEN 0 ELSE 1),
         day, 0)
DashboardFrame(team_id, team_name, grouping, include_done_only, item_types, day) ==
    Loop(EmptyFrame, BasePoints(include_done_only), day, 0)

(* --------------------------- test_database --------------------------- *)
\* the exception classes the collaborators raise; both derive from Exception
ExcClasses == {"ImportError", "ValueError"}
IsInstance(exc, cls) == cls = "Exception" \/ exc = cls

\* what `from database import db`, db.name and db.list_collection_names()
\* do, and which environment variables are set
Situations ==
    [import : {"raises", "None", "db"},
     name : {"absent", "present", "raises"},
     list : {"ok", "raises"},
     exc : ExcClasses,
     ncoll : CollLens,
     msgLen : MsgLens,
     DATABASE_URL : BOOLEAN,
     DATABASE_NAME : BOOLEAN]

\* a string of the response; detail is the length of the message slice in it
Text(text) == [text |-> text, detail |-> 0]
TextWith(text, msgLen) == [text |-> text, detail |-> Min(msgLen, SliceMessage)]

\* collections[:10] of a list of n names
Collections(n) == [k \in 1..n |-> k]
Slice(s, n) == SubSeq(s, 1, Min(Len(s), n))

InitialResponse ==
    [backend |-> Text("Running"),
     database |-> Text("Not Available"),
     database_url |-> Text("None"),
     database_name |-> Text("None"),
     connection_status |-> Text("Not Connected"),
     collections |-> <<>>]

\* lines 110-115: the inner try around list_collection_names
ListCollections(sit, response) ==
    IF sit.list = "ok"
    THEN [response EXCEPT !.collections = Slice(Collections(sit.ncoll), SliceCollections),
                          !.database = Text("Connected & Working")]
    ELSE \* except Exception as e
         [response EXCEPT !.database = TextWith("Connected but Error: ", sit.msgLen)]

\* lines 102-117: the body of the outer try; exc is the exception that
\* leaves it ("none" when it completes)
TryBody(sit, response) ==
    IF sit.import = "raises" THEN [exc |-> sit.exc, response |-> response]
    ELSE IF sit.import = "None"
    THEN [exc |-> "none",
          response |-> [response EXCEPT !.database = Text("Available but not initialized")]]
    ELSE LET r1 == [response EXCEPT !.database = Text("Available"),
                                    !.database_url = Text("Configured")]
         IN  IF sit.name = "raises" THEN [exc |-> sit.exc, response |-> r1]
             ELSE LET r2 == [r1 EXCEPT
                               !.database_name = IF sit.name = "present"
                                                 THEN Text("db.name")
                                                 ELSE Text("Connected"),
                               !.connection_status = Text("Connected")]
                  IN  [exc |-> "none", response |-> ListCollections(sit, r2)]

\* lines 119-122: the except clauses of the outer try
OuterExceptImportOnly(sit, t) ==
    IF t.exc = "none" THEN [exc |-> "none", response |-> t.response]
    ELSE IF IsInstance(t.exc, "ImportError")
    THEN [exc |-> "none",
          response |-> [t.response EXCEPT !.database =
              Text("Database module not found (run enable-database first)")]]
    ELSE t
OuterExcept(sit, t) ==
    IF t.exc = "none" THEN [exc |-> "none", response |-> t.response]
    ELSE IF IsInstance(t.exc, "ImportError")
    THEN [exc |-> "none",
          response |-> [t.response EXCEPT !.database =
              Text("Database module not found (run enable-database first)")]]
    ELSE IF IsInstance(t.exc, "Exception")
    THEN [exc |-> "none",
          response |-> [t.response EXCEPT !.database = TextWith("Error: ", sit.msgLen)]]
    ELSE t

\* lines 124-126
EnvStatus(sit, response) ==
    [response EXCEPT
        !.database_url = IF sit.DATABASE_URL THEN Text("Set") ELSE Text("Not Set"),
        !.database_name = IF sit.DATABASE_NAME THEN Text("Set") ELSE Text("Not Set")]

\* the whole handler: what the client of /test gets
test_database(sit) ==
    LET t == OuterExcept(sit, TryBody(sit, InitialResponse))
    IN  IF t.exc = "none"
        THEN [outcome |-> "returned", status |-> 200,
              body |-> EnvStatus(sit, t.response)]
        ELSE [outcome |-> "raised", status |-> 500, exc |-> t.exc]

(* ---------------------------- actions --------------------------------- *)
NoCall == [kind |-> "none"]
NoResp == [status |-> 0]

Init ==
    /\ today \in 0..MaxDay
    /\ call = [c \in Clients |-> NoCall]
    /\ frame = [c \in Clients |-> EmptyFrame]
    /\ resp = [c \in Clients |-> NoResp]
    /\ situation = [kind |-> "none"]
    /\ testResp = [outcome |-> "none"]

\* the date changes
Tick ==
    /\ today < MaxDay
    /\ today' = today + 1
    /\ UNCHANGED <<call, frame, resp, situation, testResp>>

\* GET /api/team-dashboard with a grouping the pattern accepts
TeamDashboard(c) ==
    /\ call[c] = NoCall
    /\ \E team_id \in TeamIds, team_name \in TeamNames,
       grouping \in GroupingPattern, include_done_only \in BOOLEAN,
       item_types \in ItemTypeLists :
        \E f \in {DashboardFrame(team_id, team_name, grouping,
                                  include_done_only, item_types, today)} :
            /\ call' = [call EXCEPT ![c] =
                  [kind |-> "team_dashboard", team_id |-> team_id,
                   team_name |-> team_name, grouping |-> grouping,
                   include_done_only |-> include_done_only,
                   item_types |-> item_types, today |-> today]]
            /\ frame' = [frame EXCEPT ![c] = f]
            /\ resp' = [resp EXCEPT ![c] =
                  [status |-> 200, body |-> TeamDashboardResponse(team_name, f)]]
            /\ UNCHANGED <<today, situation, testResp>>

\* GET /api/team-dashboard with a grouping the pattern rejects
RejectGrouping(c) ==
    /\ call[c] = NoCall
    /\ \E team_id \in TeamIds, team_name \in TeamNames,
       grouping \in Groupings \ GroupingPattern, include_done_only \in BOOLEAN,
       item_types \in ItemTypeLists :
        /\ call' = [call EXCEPT ![c] =
              [kind |-> "team_dashboard", team_id |-> team_id,
               team_name |-> team_name, grouping |-> grouping,
               include_done_only |-> include_done_only,
               item_types |-> item_types, today |-> today]]
        /\ frame' = [frame EXCEPT ![c] = EmptyFrame]
        /\ resp' = [resp EXCEPT ![c] = [status |-> 422]]
        /\ UNCHANGED <<today, situation, testResp>>

\* the client has its response; its next request may follow
Receive(c) ==
    /\ call[c] # NoCall
    /\ call' = [call EXCEPT ![c] = NoCall]
    /\ frame' = [frame EXCEPT ![c] = EmptyFrame]
    /\ resp' = [resp EXCEPT ![c] = NoResp]
    /\ UNCHANGED <<today, situation, testResp>>

\* GET /test in some situation of the database module and the environment
TestDatabase ==
    \E sit \in Situations :
        /\ situation' = [kind |-> "test_database", sit |-> sit]
        /\ testResp' = test_database(sit)
        /\ UNCHANGED <<today, call, frame, resp>>

Next ==
    \/ Tick
    \/ \E c \in Clients : Receive(c)
    \/ \E c \in Clients : TeamDashboard(c)
    \/ \E c \in Clients : RejectGrouping(c)

Spec == Init /\ [][Next]_vars

\* the /test endpoint on its own: it shares no state with the dashboard
TestNext == TestDatabase
TestSpec == Init /\ [][TestNext]_vars

(* ---------------------------- properties ------------------------------ *)
\* client c holds a TeamDashboardResponse
Done(c) == resp[c].status = 200
Offsets == 1..sprint_count
SeriesLabels(b, k) ==
    <<b.velocity[k].key, b.commitment_vs_completion[k].sprint,
      b.rollover_trend[k].sprint, b.sprint_rows[k].sprint>>

\* C1: in every response each of the four output series is sorted by
\* descending sprint label: "Sprint 8" first, "Sprint 1" last.
C1_SprintLabelsDescending ==
    \A c \in Clients : Done(c) =>
        LET b == resp[c].body
        IN  /\ \A x \in 1..4 : /\ SeriesLabels(b, 1)[x] = "Sprint 8"
                               /\ SeriesLabels(b, sprint_count)[x] = "Sprint 1"
            /\ \A k \in 1..(sprint_count - 1) : \A x \in 1..4 :
                 LabelNum(SeriesLabels(b, k)[x]) > LabelNum(SeriesLabels(b, k + 1)[x])

\* C2: for every generated record the rollover equals max(0, committed -
\* completed) to one decimal, in the sprint row (rollover_points), the
\* commitment point (rollover) and the rollover-trend point (rolled).
C2_RolloverIsShortfall ==
    \A c \in Clients : Done(c) =>
        /\ Len(frame[c].rows) = sprint_count
        /\ \A k \in Offsets :
             LET row == frame[c].rows[k]
                 shortfall == Max(0, row.committed - row.completed)
             IN  /\ row.rollover_points = shortfall
                 /\ frame[c].commit_vs[k].rollover = shortfall
                 /\ frame[c].rollover_points[k].rolled = shortfall
        /\ \A k \in Offsets :
             LET row == resp[c].body.sprint_rows[k]
                 shortfall == Max(0, row.committed - row.completed)
             IN  /\ row.rollover_points = shortfall
                 /\ resp[c].body.commitment_vs_completion[k].rollover = shortfall
                 /\ resp[c].body.rollover_trend[k].rolled = shortfall

\* C2 witness: a response whose record of offset 3 rolled 10.0 points over
C2_Witness ==
    \E c \in Clients :
        /\ Done(c)
        /\ frame[c].rows[4].committed - frame[c].rows[4].completed = 100
        /\ frame[c].rows[4].rollover_points = 100
        /\ frame[c].rows[1].rollover_points = 0

\* C3: for every generated record, 0 <= completed <= committed + 3.
C3_CompletedBounded ==
    \A c \in Clients : Done(c) =>
        /\ Len(frame[c].rows) = sprint_count
        /\ \A k \in Offsets :
             /\ 0 <= frame[c].rows[k].completed
             /\ frame[c].rows[k].completed <= frame[c].rows[k].committed + 30

\* C3 witness: responses for both values of include_done_only
C3_Witness ==
    \E c, d \in Clients :
        /\ Done(c) /\ Done(d)
        /\ call[c].include_done_only /\ ~call[d].include_done_only
        /\ frame[c].rows[3].completed = 370
        /\ frame[d].rows[3].completed = 420

\* the KPI of a response with the given label
KpiOf(b, label) == CHOOSE kpi \in {b.kpis[k] : k \in DOMAIN b.kpis} : kpi.label = label

\* C4: the KPI labelled "Commitment completion %" equals the sum of completed
\* over the 8 records divided by the sum of committed, times 100, rounded to
\* one decimal.
C4_CommitmentCompletionKpi ==
    \A c \in Clients : Done(c) =>
        LET b == resp[c].body
            completed == Sum(frame[c].rows, "completed")
            committed == Sum(frame[c].rows, "committed")
            value == KpiOf(b, "Commitment completion %").value
        IN  /\ Cardinality({k \in DOMAIN b.kpis :
                              b.kpis[k].label = "Commitment completion %"}) = 1
            /\ Len(frame[c].rows) = sprint_count
            /\ committed > 0
            \* value/10 is the decimal nearest to 100 * completed / committed
            /\ 2 * (value * committed - 1000 * completed) <= committed
            /\ 2 * (1000 * completed - value * committed) <= committed

\* C4 witness: 88.7 % without the done-only filter
C4_Witness ==
    \E c \in Clients :
        /\ Done(c)
        /\ ~call[c].include_done_only
        /\ KpiOf(resp[c].body, "Commitment completion %").value = 887

\* C5: the four series are parallel: 8 entries each, and at every position
\* the four records carry the same sprint label and the same committed,
\* completed and rollover values, before and after the reversal.
Parallel(velocity, commit_vs, rollover_points, rows) ==
    /\ Len(velocity) = sprint_count /\ Len(commit_vs) = sprint_count
    /\ Len(rollover_points) = sprint_count /\ Len(rows) = sprint_count
    /\ \A k \in Offsets :
         /\ velocity[k].key = rows[k].sprint
         /\ commit_vs[k].sprint = rows[k].sprint
         /\ rollover_points[k].sprint = rows[k].sprint
         /\ velocity[k].committed = rows[k].committed
         /\ commit_vs[k].committed = rows[k].committed
         /\ rollover_points[k].committed = rows[k].committed
         /\ velocity[k].completed = rows[k].completed
         /\ commit_vs[k].completed = rows[k].completed
         /\ commit_vs[k].rollover = rows[k].rollover_points
         /\ rollover_points[k].rolled = rows[k].rollover_points

C5_SeriesParallel ==
    \A c \in Clients : Done(c) =>
        /\ Parallel(frame[c].velocity, frame[c].commit_vs,
                    frame[c].rollover_points, frame[c].rows)
        /\ Parallel(resp[c].body.velocity, resp[c].body.commitment_vs_completion,
                    resp[c].body.rollover_trend, resp[c].body.sprint_rows)

\* C5 witness: a response whose rollover-trend point of offset 1 has
\* rolled 2.0 and percent 4.4, reversed into position 7
C5_Witness ==
    \E c \in Clients :
        /\ Done(c)
        /\ frame[c].rollover_points[2].rolled = 20
        /\ frame[c].rollover_points[2].percent = 44
        /\ resp[c].body.rollover_trend[7] = frame[c].rollover_points[2]
        /\ resp[c].body.sprint_rows[7].rollover_points = 20

\* C6: in the returned velocity and sprint_rows series the first entry
\* starts 14 days before the current date, every following entry 14 days
\* earlier than the one before it, and end = start + 13 days.
DatesDescend(series, day) ==
    /\ Len(series) = sprint_count
    /\ series[1].start = day - 14
    /\ \A k \in 1..(sprint_count - 1) : series[k + 1].start = series[k].start - 14
    /\ \A k \in Offsets : series[k].end = series[k].start + 13

C6_MostRecentFirstByDate ==
    \A c \in Clients : Done(c) =>
        /\ DatesDescend(resp[c].body.velocity, call[c].today)
        /\ DatesDescend(resp[c].body.sprint_rows, call[c].today)

\* C6 witness: a response computed on a later day than the first one
C6_Witness ==
    \E c \in Clients :
        /\ Done(c)
        /\ call[c].today = MaxDay
        /\ resp[c].body.velocity[1].start = MaxDay - 14
        /\ resp[c].body.velocity[sprint_count].start = MaxDay - 112

\* C7: for a fixed current date, two valid requests that agree on
\* include_done_only get the same kpis, velocity, commitment_vs_completion,
\* rollover_trend, scope_change and sprint_rows, whatever their team_id,
\* team_name, grouping and item_types; team_name is only echoed.
Computed(b) ==
    <<b.kpis, b.velocity, b.commitment_vs_completion, b.rollover_trend,
      b.scope_change, b.sprint_rows>>

C8_TestAlwaysReturns ==
    situation.kind = "test_database" =>
        /\ testResp.outcome = "returned"
        /\ testResp.status = 200
        /\ DOMAIN testResp.body = DOMAIN InitialResponse

\* C8 witness: reading db.name raised an exception that is no ImportError
C8_Witness ==
    /\ situation.kind = "test_database"
    /\ situation.sit.import = "db"
    /\ situation.sit.name = "raises"
    /\ situation.sit.exc = "ValueError"
    /\ testResp.outcome = "returned"
    /\ testResp.body.database.text = "Error: "

\* C9 as stated: some record of a response has a DoR compliance percent
\* greater than 100.
C9_DorExceeds100 ==
    \A c \in Clients : Done(c) =>
        \E k \in Offsets : frame[c].rows[k].dor_compliance_percent > 1000

\* C9 amended: the DoR compliance percent is 80 + (i%5)*3 - (i%2), not
\* clamped, and for the offsets 0..7 it never exceeds 92, so no record has a
\* DoR compliance percent greater than 100.
C9_DorAtMost92 ==
    \A c \in Clients : Done(c) =>
        /\ Len(frame[c].rows) = sprint_count
        /\ \A k \in Offsets :
             LET i == k - 1
                 dor == frame[c].rows[k].dor_compliance_percent
             IN  /\ dor = 10 * (80 + (i % 5) * 3 - (i % 2))
                 /\ dor <= 920
                 /\ dor <= 1000

\* C9 witness: the record of offset 4 has the largest value, 92.0
C9_Witness ==
    \E c \in Clients :
        /\ Done(c)
        /\ frame[c].rows[5].dor_compliance_percent = 920
        /\ resp[c].body.sprint_rows[4].dor_compliance_percent = 920

\* C10: for every generated record completed never exceeds committed, the
\* clamps at 0 and at committed + 3 leave the value unchanged, and
\* completed + rollover = committed; the totals behind the two percentage
\* KPIs add up to the total committed.
C10_CompletedWithinCommitted ==
    \A c \in Clients : Done(c) =>
        /\ Len(frame[c].rows) = sprint_count
        /\ \A k \in Offsets :
             LET i == k - 1
                 row == frame[c].rows[k]
             IN  /\ row.completed <= row.committed
                 /\ row.completed = row.committed - 10 * ((i % 4) * 4) + 10 * ((i % 2) * 2)
                 /\ row.completed + row.rollover_points = row.committed
        /\ Sum(frame[c].commit_vs, "completed") + Sum(frame[c].commit_vs, "rollover")
             = Sum(frame[c].commit_vs, "committed")

\* C10 witness: a done-only response whose record of offset 7 completed
\* 30.0 of 40.0 committed points
C10_Witness ==
    \E c \in Clients :
        /\ Done(c)
        /\ call[c].include_done_only
        /\ frame[c].rows[8].committed = 400
        /\ frame[c].rows[8].completed = 300
        /\ frame[c].rows[8].rollover_points = 100
        /\ Sum(frame[c].commit_vs, "committed") = 3150

====
